---------------------------- MODULE Spec2Model ----------------------------
(***************************************************************************)
(* Model of util/gitutil/detectgit.go (package gitutil).                   *)
(*                                                                         *)
(* A Go string is modelled as the sequence of its lexical atoms: every     *)
(* separator character (":", "/", "@", ".", line feed) is an atom of its   *)
(* own, and every maximal run of other characters is one atom.  The empty  *)
(* string is << >>.  On such sequences the string functions used by the    *)
(* source (SplitN, Split, Replace, TrimSuffix, Join) act exactly as they   *)
(* do on the characters, because all their separators are made of          *)
(* separator characters or of a separator followed by a whole word.        *)
(* Directory names are spelled character by character, so that one name    *)
(* can be a string prefix of another.                                      *)
(***************************************************************************)
EXTENDS Integers, Sequences, FiniteSets, TLC

VARIABLES
    \* ---- Metadata(ctx, dir): one call, one step per external query
    pc,         \* position inside Metadata
    ctxDone,    \* the governing context has been cancelled
    dir,        \* argument dir
    qerr,       \* history: the queries whose command returned an error
    aborted,    \* history: the queries that were started after cancellation
    raw,        \* history: the output of each query that ran without error
    loc,        \* the locals of Metadata (baseDir, remoteURL, ..., retErr)
    ret,        \* the returned *GitMetadata (NilMeta while running or nil)
    err,        \* the returned error
    \* ---- ParseGitRemoteURL(gitURL)
    uin,        \* how the argument was built, and the argument itself
    uout,       \* the returned string
    upc,
    \* ---- ReferenceWithGitMeta(ref, gitMeta) and gitMeta.Clone()
    ref,        \* argument ref
    gitMeta,    \* argument gitMeta (NilMeta for a nil pointer)
    refOut,     \* what ReferenceWithGitMeta returned
    cloneOut,   \* what Clone returned
    rpc

metaVars == <<pc, ctxDone, dir, qerr, aborted, raw, loc, ret, err>>
urlVars  == <<uin, uout, upc>>
refVars  == <<ref, gitMeta, refOut, cloneOut, rpc>>
vars     == <<pc, ctxDone, dir, qerr, aborted, raw, loc, ret, err,
              uin, uout, upc, ref, gitMeta, refOut, cloneOut, rpc>>

-----------------------------------------------------------------------------
(* Bounds of the model.                                                    *)

\* longest raw argument of ParseGitRemoteURL, in atoms
MaxURLLen == 4
\* deepest directory, in path components below "/"
MaxDepth == 2
\* longest Branch / Tags list of a metadata record handed to the rewriter
MaxList == 2

-----------------------------------------------------------------------------
(* Strings.                                                                *)

LF == "<LF>"
Seps == {":", "/", "@", ".", LF}
IsWord(a) == a \notin Seps
\* the tokenisation is canonical: no two words are adjacent
WellFormed(s) == \A i \in 1..(Len(s) - 1) : ~(IsWord(s[i]) /\ IsWord(s[i + 1]))

\* sequences over S of length at most n
RECURSIVE SeqsUpTo(_, _)
SeqsUpTo(S, n) ==
    IF n = 0 THEN {<< >>}
    ELSE LET T == SeqsUpTo(S, n - 1)
         IN  T \cup {Append(t, x) : t \in {u \in T : Len(u) = n - 1}, x \in S}

\* strings.Index, 1-based; 0 when sep does not occur
Index(s, sep) ==
    LET C == {i \in 1..(Len(s) - Len(sep) + 1) :
                 SubSeq(s, i, i + Len(sep) - 1) = sep}
    IN  IF C = {} THEN 0 ELSE CHOOSE i \in C : \A j \in C : i <= j

Contains(s, sep) == Index(s, sep) # 0

\* strings.SplitN(s, sep, 2)
SplitN(s, sep) ==
    LET i == Index(s, sep)
    IN  IF i = 0 THEN <<s>>
        ELSE <<SubSeq(s, 1, i - 1), SubSeq(s, i + Len(sep), Len(s))>>

\* strings.Split(s, sep)
RECURSIVE Split(_, _)
Split(s, sep) ==
    LET i == Index(s, sep)
    IN  IF i = 0 THEN <<s>>
        ELSE <<SubSeq(s, 1, i - 1)>> \o Split(SubSeq(s, i + Len(sep), Len(s)), sep)

\* strings.Join(parts, sep)
RECURSIVE Join(_, _)
Join(parts, sep) ==
    IF Len(parts) = 0 THEN << >>
    ELSE IF Len(parts) = 1 THEN parts[1]
    ELSE parts[1] \o sep \o Join(Tail(parts), sep)

\* strings.Replace(s, old, new, 1)
Replace(s, old, new) ==
    LET i == Index(s, old)
    IN  IF i = 0 THEN s
        ELSE SubSeq(s, 1, i - 1) \o new \o SubSeq(s, i + Len(old), Len(s))

HasSuffix(s, suf) ==
    /\ Len(s) >= Len(suf)
    /\ SubSeq(s, Len(s) - Len(suf) + 1, Len(s)) = suf

\* strings.TrimSuffix(s, suf)
TrimSuffix(s, suf) ==
    IF HasSuffix(s, suf) THEN SubSeq(s, 1, Len(s) - Len(suf)) ELSE s

SchemeSep == <<":", "/", "/">>
DotGit    == <<".", "git">>

-----------------------------------------------------------------------------
(* ParseGitRemoteURL                                                       *)

\* a slip: the suffix is trimmed without its dot
ParseGitRemoteURL_TrimGit(gitURL) ==
    LET parts1 == SplitN(gitURL, SchemeSep)
        s1     == IF Len(parts1) = 2 THEN parts1[2] ELSE gitURL
        parts2 == SplitN(s1, <<"@">>)
        s2     == IF Len(parts2) = 2 THEN parts2[2] ELSE s1
        s3     == Replace(s2, <<":">>, <<"/">>)
    IN  TrimSuffix(s3, <<"git">>)

ParseGitRemoteURL(gitURL) ==
    LET parts1 == SplitN(gitURL, SchemeSep)
        s1     == IF Len(parts1) = 2 THEN parts1[2] ELSE gitURL
        parts2 == SplitN(s1, <<"@">>)
        s2     == IF Len(parts2) = 2 THEN parts2[2] ELSE s1
        s3     == Replace(s2, <<":">>, <<"/">>)
    IN  TrimSuffix(s3, DotGit)

-----------------------------------------------------------------------------
(* Paths: path/filepath on a system whose separator is "/", and path.Join. *)

Separator == "/"

\* filepath.ToSlash
ToSlash(p) ==
    IF Separator = "/" THEN p
    ELSE [i \in DOMAIN p |-> IF p[i] = Separator THEN "/" ELSE p[i]]

\* filepath.FromSlash
FromSlash(p) ==
    IF Separator = "/" THEN p
    ELSE [i \in DOMAIN p |-> IF p[i] = "/" THEN Separator ELSE p[i]]

\* filepath.IsAbs
IsAbs(p) == Len(p) > 0 /\ p[1] = Separator

\* path.Clean, on the elements between slashes
RECURSIVE CleanElems(_, _, _)
CleanElems(elems, rooted, acc) ==
    IF Len(elems) = 0 THEN acc
    ELSE LET e == Head(elems)
             acc2 == IF e = << >> \/ e = <<".">> THEN acc
                     ELSE IF e = <<".", ".">> THEN
                         IF Len(acc) > 0 /\ acc[Len(acc)] # <<".", ".">>
                         THEN SubSeq(acc, 1, Len(acc) - 1)
                         ELSE IF rooted THEN acc ELSE Append(acc, e)
                     ELSE Append(acc, e)
         IN  CleanElems(Tail(elems), rooted, acc2)

PathClean(p) ==
    IF p = << >> THEN <<".">>
    ELSE LET rooted == p[1] = "/"
             out == (IF rooted THEN <<"/">> ELSE << >>)
                    \o Join(CleanElems(Split(p, <<"/">>), rooted, << >>), <<"/">>)
         IN  IF out = << >> THEN <<".">> ELSE out

\* path.Join(a, b)
PathJoin(a, b) ==
    IF a = << >> /\ b = << >> THEN << >>
    ELSE IF a = << >> THEN PathClean(b)
    ELSE IF b = << >> THEN PathClean(a)
    ELSE PathClean(a \o <<"/">> \o b)

Nil == "nil"

\* the three results of gitRelDir
RelResult(relDir, isRel, e) == [relDir |-> relDir, isRel |-> isRel, err |-> e]

\* a slip: the base is matched as a string prefix, not component by component
gitRelDir_StringPrefix(basePath, fs) ==
    IF fs.err # Nil THEN RelResult(<< >>, FALSE, fs.err)
    ELSE IF ~IsAbs(basePath) THEN RelResult(<< >>, FALSE, "ErrBaseNotAbs")
    ELSE LET basePathSlash == ToSlash(basePath)
             pathSlash     == ToSlash(fs.path)
         IN  IF Len(pathSlash) < Len(basePathSlash)
                \/ SubSeq(pathSlash, 1, Len(basePathSlash)) # basePathSlash
             THEN RelResult(<< >>, FALSE, Nil)
             ELSE LET rest    == SubSeq(pathSlash, Len(basePathSlash) + 1, Len(pathSlash))
                      relPath == IF Len(rest) > 0 /\ rest[1] = "/" THEN Tail(rest) ELSE rest
                  IN  IF relPath = << >> THEN RelResult(<<".">>, TRUE, Nil)
                      ELSE RelResult(FromSlash(relPath), TRUE, Nil)

\* gitRelDir(basePath, path); fs is what filepath.Abs and
\* filepath.EvalSymlinks answered for path: an error, or the resolved path
gitRelDir(basePath, fs) ==
    IF fs.err # Nil THEN RelResult(<< >>, FALSE, fs.err)
    ELSE IF ~IsAbs(basePath) THEN RelResult(<< >>, FALSE, "ErrBaseNotAbs")
    ELSE LET basePathSlash == ToSlash(basePath)
             pathSlash     == ToSlash(fs.path)
             basePathParts == Split(basePathSlash, <<"/">>)
             pathParts     == Split(pathSlash, <<"/">>)
         IN  IF Len(pathParts) < Len(basePathParts)
             THEN RelResult(<< >>, FALSE, Nil)
             ELSE IF \E index \in 1..Len(basePathParts) :
                         basePathParts[index] # pathParts[index]
             THEN RelResult(<< >>, FALSE, Nil)
             ELSE LET relPath == Join(SubSeq(pathParts, Len(basePathParts) + 1,
                                             Len(pathParts)), <<"/">>)
                  IN  IF relPath = << >> THEN RelResult(<<".">>, TRUE, Nil)
                      ELSE RelResult(FromSlash(relPath), TRUE, Nil)

-----------------------------------------------------------------------------
(* Metadata: the external queries.  A query's answer o is what cmd.Output  *)
(* returned: o.err (the command failed or was not started) or o.out.       *)

NilMeta == [isNil |-> TRUE]

Failed == [err |-> TRUE, out |-> << >>]
Output(s) == [err |-> FALSE, out |-> s]

\* first line of an output: strings.SplitN(outStr, "\n", 2)[0]
FirstLine(outStr) == SplitN(outStr, <<LF>>)[1]

Res(v, e) == [val |-> v, err |-> e]

\* detectGitBinary is defined in another file of the package; it answers
\* ErrNoGitBinary when no binary is found
detectGitBinary(o) == IF o.err THEN "ErrNoGitBinary" ELSE Nil

detectIsGitDir(o) == IF o.err THEN "ErrNotAGitDir" ELSE Nil

detectGitBaseDir(o) ==
    IF o.err THEN Res(<< >>, "ErrDetectGitDirectory")
    ELSE IF o.out = << >> THEN Res(<< >>, "ErrNoBaseDirOutput")
    ELSE Res(FirstLine(o.out), Nil)

detectGitRemoteURL(o) ==
    IF o.err THEN Res(<< >>, "ErrCouldNotDetectRemote")
    ELSE IF o.out = << >> THEN Res(<< >>, "ErrCouldNotDetectRemote")
    ELSE Res(FirstLine(o.out), Nil)

detectGitHash(o) ==
    IF o.err THEN Res(<< >>, "ErrCouldNotDetectGitHash")
    ELSE IF o.out = << >> THEN Res(<< >>, "ErrCouldNotDetectGitHash")
    ELSE Res(FirstLine(o.out), Nil)

detectGitShortHash(o) ==
    IF o.err THEN Res(<< >>, "ErrCouldNotDetectGitShortHash")
    ELSE IF o.out = << >> THEN Res(<< >>, "ErrCouldNotDetectGitShortHash")
    ELSE Res(FirstLine(o.out), Nil)

\* a nil slice and an empty one are both << >>
detectGitBranch(o) ==
    IF o.err THEN Res(<< >>, "ErrCouldNotDetectGitBranch")
    ELSE IF o.out # << >> THEN Res(Split(o.out, <<LF>>), Nil)
    ELSE Res(<< >>, Nil)

detectGitTags(o) ==
    IF o.err THEN Res(<< >>, "ErrDetectGitCurrentTags")
    ELSE IF o.out # << >> THEN Res(Split(o.out, <<LF>>), Nil)
    ELSE Res(<< >>, Nil)

\* a slip: a failed timestamp query leaves the timestamp empty
detectGitTimestamp_Empty(o) ==
    IF o.err THEN Res(<< >>, Nil)
    ELSE IF o.out = << >> THEN Res(<< >>, Nil)
    ELSE Res(FirstLine(o.out), Nil)

detectGitTimestamp(o) ==
    IF o.err THEN Res(<<"0">>, Nil)
    ELSE IF o.out = << >> THEN Res(<<"0">>, Nil)
    ELSE Res(FirstLine(o.out), Nil)

\* a slip: the first failure is kept instead of the last
KeepErr_First(retErr, e) == IF retErr # Nil THEN retErr ELSE e

\* "if err != nil { retErr = err }"
KeepErr(retErr, e) == IF e # Nil THEN e ELSE retErr

-----------------------------------------------------------------------------
(* What the environment can answer.                                        *)

DirNames == {<<"a">>, <<"a", "b">>}

\* "/" and the absolute clean paths of at most MaxDepth components
AbsPath(comps) == <<"/">> \o Join(comps, <<"/">>)
AbsPaths == {AbsPath(c) : c \in SeqsUpTo(DirNames, MaxDepth)}

RemoteLine == <<"git", "@", "h", ":", "o", "/", "r", ".", "git">>

Answers(q) ==
    CASE q = "binary"    -> {Failed, Output(<<"/", "usr", "/", "bin", "/", "git", LF>>)}
      [] q = "isGitDir"  -> {Failed, Output(<<"clean", LF>>)}
      [] q = "baseDir"   -> {Failed, Output(<< >>)} \cup {Output(p \o <<LF>>) : p \in AbsPaths}
      [] q = "remote"    -> {Failed, Output(<< >>), Output(RemoteLine \o <<LF>>)}
      [] q = "hash"      -> {Failed, Output(<< >>), Output(<<"abc12345def", LF>>)}
      [] q = "shortHash" -> {Failed, Output(<< >>), Output(<<"abc12345", LF>>)}
      [] q = "branch"    -> {Failed, Output(<< >>), Output(<<"main", LF>>)}
      [] q = "tags"      -> {Failed, Output(<< >>), Output(<<"v1", LF>>)}
      [] q = "timestamp" -> {Failed, Output(<< >>), Output(<<"1700000000", LF>>)}

\* what filepath.Abs and filepath.EvalSymlinks answer for dir
FsAnswers ==
    {[err |-> "ErrAbsPath", path |-> << >>], [err |-> "ErrEvalSymlinks", path |-> << >>]}
    \cup {[err |-> Nil, path |-> p] : p \in AbsPaths}

DirArgs == {<<"a", "b">>}

Queries == {"binary", "isGitDir", "baseDir", "remote", "hash", "shortHash",
            "branch", "tags", "timestamp"}

Locals0 == [baseDir |-> << >>, remoteURL |-> << >>, gitURL |-> << >>,
            hash |-> << >>, shortHash |-> << >>, branch |-> << >>,
            tags |-> << >>, timestamp |-> << >>, retErr |-> Nil]

NoOut == [err |-> FALSE, out |-> <<"unset">>]
NoFs  == [err |-> Nil, path |-> <<"unset">>]

-----------------------------------------------------------------------------
(* Metadata(ctx, dir)                                                      *)

\* exec.CommandContext: a command of a cancelled context is not started and
\* cmd.Output returns an error
Asked(q) == IF ctxDone THEN {Failed} ELSE Answers(q)

Note(q, o) ==
    /\ qerr' = IF o.err THEN qerr \cup {q} ELSE qerr
    /\ aborted' = IF ctxDone THEN aborted \cup {q} ELSE aborted
    /\ raw' = [raw EXCEPT ![q] = o]

Return(m, e) ==
    /\ pc' = "done"
    /\ ret' = m
    /\ err' = e

Goto(l) ==
    /\ pc' = l
    /\ UNCHANGED <<ret, err>>

\* the context is cancelled by the caller, at any moment from the first
\* query of this file on (detectGitBinary is defined elsewhere)
Cancel ==
    /\ pc \notin {"binary", "done"}
    /\ ~ctxDone
    /\ ctxDone' = TRUE
    /\ UNCHANGED <<pc, dir, qerr, aborted, raw, loc, ret, err>>
    /\ UNCHANGED <<urlVars, refVars>>

DetectBinary ==
    /\ pc = "binary"
    /\ \E o \in Answers("binary") :
          /\ qerr' = IF o.err THEN qerr \cup {"binary"} ELSE qerr
          /\ raw' = [raw EXCEPT !["binary"] = o]
          /\ IF detectGitBinary(o) # Nil
             THEN Return(NilMeta, detectGitBinary(o))
             ELSE Goto("isGitDir")
    /\ UNCHANGED <<ctxDone, dir, aborted, loc>>
    /\ UNCHANGED <<urlVars, refVars>>

DetectIsGitDir ==
    /\ pc = "isGitDir"
    /\ \E o \in Asked("isGitDir") :
          /\ Note("isGitDir", o)
          /\ IF detectIsGitDir(o) # Nil
             THEN Return(NilMeta, detectIsGitDir(o))
             ELSE Goto("baseDir")
    /\ UNCHANGED <<ctxDone, dir, loc>>
    /\ UNCHANGED <<urlVars, refVars>>

DetectBaseDir ==
    /\ pc = "baseDir"
    /\ \E o \in Asked("baseDir") :
          LET r == detectGitBaseDir(o)
          IN  /\ Note("baseDir", o)
              /\ IF r.err # Nil
                 THEN Return(NilMeta, r.err) /\ UNCHANGED loc
                 ELSE Goto("remote") /\ loc' = [loc EXCEPT !.baseDir = r.val]
    /\ UNCHANGED <<ctxDone, dir>>
    /\ UNCHANGED <<urlVars, refVars>>

\* ParseGitRemoteURL always returns a nil error, so the return of line 66
\* is never taken
DetectRemote ==
    /\ pc = "remote"
    /\ \E o \in Asked("remote") :
          LET r == detectGitRemoteURL(o)
          IN  /\ Note("remote", o)
              /\ loc' = [loc EXCEPT
                           !.retErr = KeepErr(loc.retErr, r.err),
                           !.remoteURL = r.val,
                           !.gitURL = IF r.val # << >> THEN ParseGitRemoteURL(r.val)
                                      ELSE << >>]
    /\ Goto("hash")
    /\ UNCHANGED <<ctxDone, dir>>
    /\ UNCHANGED <<urlVars, refVars>>

DetectHash ==
    /\ pc = "hash"
    /\ \E o \in Asked("hash") :
          LET r == detectGitHash(o)
          IN  /\ Note("hash", o)
              /\ loc' = [loc EXCEPT !.retErr = KeepErr(loc.retErr, r.err),
                                    !.hash = r.val]
    /\ Goto("shortHash")
    /\ UNCHANGED <<ctxDone, dir>>
    /\ UNCHANGED <<urlVars, refVars>>

DetectShortHash ==
    /\ pc = "shortHash"
    /\ \E o \in Asked("shortHash") :
          LET r == detectGitShortHash(o)
          IN  /\ Note("shortHash", o)
              /\ loc' = [loc EXCEPT !.retErr = KeepErr(loc.retErr, r.err),
                                    !.shortHash = r.val]
    /\ Goto("branch")
    /\ UNCHANGED <<ctxDone, dir>>
    /\ UNCHANGED <<urlVars, refVars>>

DetectBranch ==
    /\ pc = "branch"
    /\ \E o \in Asked("branch") :
          LET r == detectGitBranch(o)
          IN  /\ Note("branch", o)
              /\ loc' = [loc EXCEPT !.retErr = KeepErr(loc.retErr, r.err),
                                    !.branch = r.val]
    /\ Goto("tags")
    /\ UNCHANGED <<ctxDone, dir>>
    /\ UNCHANGED <<urlVars, refVars>>

\* "if err != nil { tags = nil }": retErr is left alone
DetectTags ==
    /\ pc = "tags"
    /\ \E o \in Asked("tags") :
          LET r == detectGitTags(o)
          IN  /\ Note("tags", o)
              /\ loc' = [loc EXCEPT !.tags = IF r.err # Nil THEN << >> ELSE r.val]
    /\ Goto("timestamp")
    /\ UNCHANGED <<ctxDone, dir>>
    /\ UNCHANGED <<urlVars, refVars>>

DetectTimestamp ==
    /\ pc = "timestamp"
    /\ \E o \in Asked("timestamp") :
          LET r == detectGitTimestamp(o)
          IN  /\ Note("timestamp", o)
              /\ loc' = [loc EXCEPT !.retErr = KeepErr(loc.retErr, r.err),
                                    !.timestamp = r.val]
    /\ Goto("relDir")
    /\ UNCHANGED <<ctxDone, dir>>
    /\ UNCHANGED <<urlVars, refVars>>

\* lines 95-113: the relative directory, and the record
MetadataResult(l, rel) ==
    IF rel.err # Nil THEN [ret |-> NilMeta, err |-> "ErrGetRelDir"]
    ELSE IF ~rel.isRel THEN [ret |-> NilMeta, err |-> "ErrNonRelativePath"]
    ELSE [ret |-> [BaseDir   |-> ToSlash(l.baseDir),
                   RelDir    |-> ToSlash(rel.relDir),
                   RemoteURL |-> l.remoteURL,
                   GitURL    |-> l.gitURL,
                   Hash      |-> l.hash,
                   ShortHash |-> l.shortHash,
                   Branch    |-> l.branch,
                   Tags      |-> l.tags,
                   Timestamp |-> l.timestamp],
          err |-> l.retErr]

RelDirAndReturn ==
    /\ pc = "relDir"
    /\ \E fs \in FsAnswers :
          LET res == MetadataResult(loc, gitRelDir(loc.baseDir, fs))
          IN  /\ raw' = [raw EXCEPT !["fs"] = fs]
              /\ Return(res.ret, res.err)
    /\ UNCHANGED <<ctxDone, dir, qerr, aborted, loc>>
    /\ UNCHANGED <<urlVars, refVars>>

UrlIdle ==
    /\ uin = [kind |-> "idle"]
    /\ uout = << >>
    /\ upc = "idle"

RefIdle ==
    /\ ref = [kind |-> "idle"]
    /\ gitMeta = NilMeta
    /\ refOut = [kind |-> "none"]
    /\ cloneOut = NilMeta
    /\ rpc = "idle"

MetaIdle ==
    /\ pc = "idle"
    /\ ctxDone = FALSE
    /\ dir = << >>
    /\ qerr = {}
    /\ aborted = {}
    /\ raw = [q \in Queries \cup {"fs"} |-> IF q = "fs" THEN NoFs ELSE NoOut]
    /\ loc = Locals0
    /\ ret = NilMeta
    /\ err = Nil

Init ==
    /\ pc = "binary"
    /\ ctxDone = FALSE
    /\ dir \in DirArgs
    /\ qerr = {}
    /\ aborted = {}
    /\ raw = [q \in Queries \cup {"fs"} |-> IF q = "fs" THEN NoFs ELSE NoOut]
    /\ loc = Locals0
    /\ ret = NilMeta
    /\ err = Nil
    /\ UrlIdle
    /\ RefIdle

Next ==
    \/ Cancel
    \/ DetectBinary
    \/ DetectIsGitDir
    \/ DetectBaseDir
    \/ DetectRemote
    \/ DetectHash
    \/ DetectShortHash
    \/ DetectBranch
    \/ DetectTags
    \/ DetectTimestamp
    \/ RelDirAndReturn

Spec == Init /\ [][Next]_vars

-----------------------------------------------------------------------------
(* ParseGitRemoteURL applied to an argument.                               *)

URLAtoms == {":", "/", "@", ".", "git", "h"}
Schemes  == {<<"https">>, <<"ssh">>}
Users    == {<< >>, <<"git">>, <<"u", ":", "pw">>}
Hosts    == {<<"h">>, <<"h", ".", "com">>}
RepoPaths == {<<"r">>, <<"o", "/", "r">>, <<"r", "@", "v">>, <<"o", ":", "r">>}
Suffixes == {<< >>, DotGit}

UserPart(u) == IF u = << >> THEN << >> ELSE u \o <<"@">>

\* scheme://[user@]host/path[.git]
SchemeURL(sch, u, h, p, suf) == sch \o SchemeSep \o UserPart(u) \o h \o <<"/">> \o p \o suf
\* [user@]host:path[.git]
ShortURL(u, h, p, suf) == UserPart(u) \o h \o <<":">> \o p \o suf

URLInputs ==
    {[kind |-> "raw", user |-> << >>, host |-> << >>, path |-> << >>, url |-> s] :
        s \in {t \in SeqsUpTo(URLAtoms, MaxURLLen) : WellFormed(t)}}
    \cup
    {[kind |-> "scheme", user |-> u, host |-> h, path |-> p,
      url |-> SchemeURL(sch, u, h, p, suf)] :
        sch \in Schemes, u \in Users, h \in Hosts, p \in RepoPaths, suf \in Suffixes}
    \cup
    {[kind |-> "short", user |-> u, host |-> h, path |-> p,
      url |-> ShortURL(u, h, p, suf)] :
        u \in Users, h \in Hosts, p \in RepoPaths, suf \in Suffixes}

Parse ==
    /\ upc = "start"
    /\ uout' = ParseGitRemoteURL(uin.url)
    /\ upc' = "done"
    /\ UNCHANGED uin
    /\ UNCHANGED <<metaVars, refVars>>

InitURL ==
    /\ uin \in URLInputs
    /\ uout = << >>
    /\ upc = "start"
    /\ MetaIdle
    /\ RefIdle

NextURL == Parse

SpecURL == InitURL /\ [][NextURL]_vars

-----------------------------------------------------------------------------
(* domain.Reference, ReferenceWithGitMeta and GitMetadata.Clone.           *)

\* domain.Target and domain.Command carry GitURL, Tag, LocalPath, ImportRef
\* and their name; "Other" is any other implementation of the interface
RefKinds == {"Target", "Command", "Other"}

GetTag(r)       == r.Tag
GetLocalPath(r) == r.LocalPath
GetName(r)      == r.Name
GetImportRef(r) == r.ImportRef

Refs ==
    {[kind |-> k, GitURL |-> g, Tag |-> t, LocalPath |-> <<".", "/", "sub">>,
      ImportRef |-> <<"imp">>, Name |-> <<"build">>] :
        k \in RefKinds, g \in {<< >>, <<"old", "/", "url">>}, t \in {<< >>, <<"pinned">>}}

TagNames    == {<<"v1">>, <<"v2">>}
\* Metadata leaves an empty last entry behind the final line feed
BranchNames == {<<"main">>, << >>}

Metas ==
    {NilMeta} \cup
    {[BaseDir |-> <<"/", "a">>, RelDir |-> rd, RemoteURL |-> ru, GitURL |-> gu,
      Hash |-> h, ShortHash |-> <<"abc12345">>, Branch |-> b, Tags |-> t,
      Timestamp |-> ts] :
        rd \in {<< >>, <<".">>, <<"a", "/", "ab">>},
        ru \in {<< >>, RemoteLine},
        gu \in {<< >>, <<"h", "/", "o", "/", "r">>},
        h  \in {<< >>, <<"abc12345def">>},
        b  \in SeqsUpTo(BranchNames, MaxList),
        t  \in SeqsUpTo(TagNames, MaxList),
        ts \in {<<"0">>, <<"1700000000">>}}

Panic == [kind |-> "panic"]

\* a slip: the metadata's tag always wins
SelectTag_Overwrite(tag, m) ==
    IF Len(m.Tags) > 0 THEN m.Tags[1]
    ELSE IF tag # << >> THEN tag
    ELSE IF Len(m.Branch) > 0 THEN m.Branch[1]
    ELSE m.Hash

\* lines 298-311: the selector
SelectTag(tag, m) ==
    IF tag = << >> THEN
        IF Len(m.Tags) > 0 THEN m.Tags[1]
        ELSE IF Len(m.Branch) > 0 THEN m.Branch[1]
        ELSE m.Hash
    ELSE tag

\* a slip: the reference is rebuilt even when no remote is known
ReferenceWithGitMeta_NoGuard(r, m) ==
    IF m = NilMeta THEN r
    ELSE LET gitURL == IF m.RelDir # << >> THEN PathJoin(m.GitURL, m.RelDir) ELSE m.GitURL
             tag    == SelectTag(GetTag(r), m)
         IN  IF r.kind \in {"Target", "Command"}
             THEN [kind |-> r.kind, GitURL |-> gitURL, Tag |-> tag,
                   LocalPath |-> GetLocalPath(r), ImportRef |-> GetImportRef(r),
                   Name |-> GetName(r)]
             ELSE Panic

ReferenceWithGitMeta(r, m) ==
    IF m = NilMeta THEN r
    ELSE IF m.GitURL = << >> THEN r
    ELSE LET gitURL == IF m.RelDir # << >> THEN PathJoin(m.GitURL, m.RelDir) ELSE m.GitURL
             tag    == SelectTag(GetTag(r), m)
         IN  IF r.kind \in {"Target", "Command"}
             THEN [kind |-> r.kind, GitURL |-> gitURL, Tag |-> tag,
                   LocalPath |-> GetLocalPath(r), ImportRef |-> GetImportRef(r),
                   Name |-> GetName(r)]
             ELSE Panic

\* a slip: the tags are dropped and the short hash is kept
Clone_DropTags(gm) ==
    [BaseDir |-> gm.BaseDir, RelDir |-> gm.RelDir, RemoteURL |-> << >>,
     GitURL |-> gm.GitURL, Hash |-> gm.Hash, ShortHash |-> gm.ShortHash,
     Branch |-> gm.Branch, Tags |-> << >>, Timestamp |-> << >>]

\* the fields the composite literal does not name hold their zero value
Clone(gm) ==
    [BaseDir |-> gm.BaseDir, RelDir |-> gm.RelDir, RemoteURL |-> << >>,
     GitURL |-> gm.GitURL, Hash |-> gm.Hash, ShortHash |-> << >>,
     Branch |-> gm.Branch, Tags |-> gm.Tags, Timestamp |-> << >>]

Rewrite ==
    /\ rpc = "start"
    /\ refOut' = ReferenceWithGitMeta(ref, gitMeta)
    /\ rpc' = "rewritten"
    /\ UNCHANGED <<ref, gitMeta, cloneOut>>
    /\ UNCHANGED <<metaVars, urlVars>>

\* Clone has a pointer receiver and is called on a record, not on nil
CloneMeta ==
    /\ rpc = "start"
    /\ gitMeta # NilMeta
    /\ cloneOut' = Clone(gitMeta)
    /\ rpc' = "cloned"
    /\ UNCHANGED <<ref, gitMeta, refOut>>
    /\ UNCHANGED <<metaVars, urlVars>>

InitRef ==
    /\ ref \in Refs
    /\ gitMeta \in Metas
    /\ refOut = [kind |-> "none"]
    /\ cloneOut = NilMeta
    /\ rpc = "start"
    /\ MetaIdle
    /\ UrlIdle

NextRef ==
    \/ Rewrite
    \/ CloneMeta

SpecRef == InitRef /\ [][NextRef]_vars

-----------------------------------------------------------------------------
(* Properties of ReferenceWithGitMeta and Clone (SpecRef).                 *)

Rewritten == rpc = "rewritten"
RemoteKnown == gitMeta # NilMeta /\ gitMeta.GitURL # << >>

\* C1: when the metadata has a non-empty canonical URL, the selector of the
\* returned reference is ref's own tag if that is non-empty, otherwise the
\* first of m.Tags, otherwise the first of m.Branch, otherwise m.Hash; a
\* Target or a Command always gets a reference back.
C1_SelectorPriority ==
    (Rewritten /\ RemoteKnown) =>
        /\ ref.kind \in {"Target", "Command"} => refOut # Panic
        /\ refOut # Panic =>
              refOut.Tag =
                 IF ref.Tag # << >> THEN ref.Tag
                 ELSE IF gitMeta.Tags # << >> THEN Head(gitMeta.Tags)
                 ELSE IF gitMeta.Branch # << >> THEN Head(gitMeta.Branch)
                 ELSE gitMeta.Hash

\* the branch is chosen: no explicit selector, no tag at the commit
C1_Witness ==
    /\ Rewritten /\ RemoteKnown
    /\ ref.kind = "Command"
    /\ ref.Tag = << >>
    /\ gitMeta.Tags = << >>
    /\ gitMeta.Branch = <<<<"main">>, << >>>>
    /\ gitMeta.Hash # << >>
    /\ refOut.Tag = <<"main">>

\* C2: with a nil metadata or an empty canonical URL the reference comes
\* back unchanged in every field, whatever its variant, tags or hash.
C2_UnchangedWithoutRemote ==
    (Rewritten /\ ~RemoteKnown) => refOut = ref

C2_Witness ==
    /\ Rewritten
    /\ gitMeta # NilMeta
    /\ gitMeta.GitURL = << >>
    /\ gitMeta.Tags # << >>
    /\ gitMeta.RelDir # << >>
    /\ ref.kind = "Target"
    /\ ref.Tag = << >>
    /\ refOut = ref

Cloned == rpc = "cloned"

SameLocation(c, m) ==
    /\ c.BaseDir = m.BaseDir
    /\ c.RelDir = m.RelDir
    /\ c.GitURL = m.GitURL
    /\ c.Hash = m.Hash
    /\ c.Branch = m.Branch

\* C3 as stated: the clone has an empty remote URL, empty tags and an empty
\* timestamp, and the base dir, rel dir, canonical URL, hash and branch of m.
C3_Original ==
    Cloned =>
        /\ cloneOut.RemoteURL = << >>
        /\ cloneOut.Tags = << >>
        /\ cloneOut.Timestamp = << >>
        /\ SameLocation(cloneOut, gitMeta)

\* C3, amended: the clone has an empty remote URL and an empty timestamp,
\* and the base dir, rel dir, canonical URL, hash, branch and tags of m.
C3_CloneKeepsTags ==
    Cloned =>
        /\ cloneOut.RemoteURL = << >>
        /\ cloneOut.Timestamp = << >>
        /\ SameLocation(cloneOut, gitMeta)
        /\ cloneOut.Tags = gitMeta.Tags

C3_Witness ==
    /\ Cloned
    /\ gitMeta.RemoteURL # << >>
    /\ gitMeta.Tags = <<<<"v2">>, <<"v1">>>>
    /\ gitMeta.Branch # << >>
    /\ cloneOut.Tags = gitMeta.Tags
    /\ cloneOut.RemoteURL = << >>

-----------------------------------------------------------------------------
(* Properties of ParseGitRemoteURL (SpecURL).                              *)

Parsed == upc = "done"

\* C4 as stated: an argument with no "://", no "@" and no trailing ".git"
\* is returned as it is.
C4_Original ==
    (/\ Parsed
     /\ ~Contains(uin.url, SchemeSep)
     /\ ~Contains(uin.url, <<"@">>)
     /\ ~HasSuffix(uin.url, DotGit)) => uout = uin.url

\* C4, amended: an argument with no ":" (so no "://" either), no "@" and no
\* trailing ".git" is returned as it is.
C4_IdempotentOnCanonical ==
    (/\ Parsed
     /\ ~Contains(uin.url, <<":">>)
     /\ ~Contains(uin.url, <<"@">>)
     /\ ~HasSuffix(uin.url, DotGit)) => uout = uin.url

\* a canonical host/path with a dot and the word git inside it
C4_Witness ==
    /\ Parsed
    /\ uin.url = <<"h", "/", "git", ".">>
    /\ uout = uin.url

HostSlashPath == uin.host \o <<"/">> \o uin.path

\* C5: a URL of the form scheme://[user@]host/path[.git] or
\* [user@]host:path[.git] is turned into host/path, with no scheme and no
\* trailing ".git" left.
C5_CanonicalHostPath ==
    (Parsed /\ uin.kind \in {"scheme", "short"}) =>
        /\ uout = HostSlashPath
        /\ ~Contains(uout, SchemeSep)
        /\ ~HasSuffix(uout, DotGit)

\* where C5 does hold: the repository path holds neither "@" nor ":"
C5_PlainPath ==
    (/\ Parsed
     /\ uin.kind \in {"scheme", "short"}
     /\ ~Contains(uin.path, <<"@">>)
     /\ ~Contains(uin.path, <<":">>)) =>
        /\ uout = HostSlashPath
        /\ ~Contains(uout, SchemeSep)
        /\ ~HasSuffix(uout, DotGit)

-----------------------------------------------------------------------------
(* Properties of Metadata (Spec).                                          *)

Done == pc = "done"

\* the query q was made and did not deliver: its command failed, or it
\* printed nothing where a line is required
QFailed(q) ==
    \/ q \in qerr
    \/ /\ q \in {"baseDir", "remote", "hash", "shortHash", "timestamp"}
       /\ raw[q] = Output(<< >>)

\* the line a successful query printed, without its line feed
Line(q) == SubSeq(raw[q].out, 1, Len(raw[q].out) - 1)

\* the path components of an absolute path; "/" has none
Comps(p) == SelectSeq(Split(p, <<"/">>), LAMBDA e : e # << >>)

IsPrefixOf(a, b) == Len(a) <= Len(b) /\ SubSeq(b, 1, Len(a)) = a

\* p is the directory root or lies below it
IsDescendant(root, p) == IsPrefixOf(Comps(root), Comps(p))

\* the relative-directory step ran and the directory was resolved
Resolved == raw["fs"] # NoFs /\ raw["fs"].err = Nil

\* pre-flight and root detection passed, the directory was resolved and
\* gitRelDir found it to be the root or below it
Assembling == Resolved /\ gitRelDir(loc.baseDir, raw["fs"]).isRel

FieldsAsDetected ==
    /\ ret.BaseDir = Line("baseDir")
    /\ ret.RemoteURL = IF QFailed("remote") THEN << >> ELSE Line("remote")
    /\ ret.GitURL = IF QFailed("remote") THEN << >> ELSE <<"h", "/", "o", "/", "r">>
    /\ ret.Hash = IF QFailed("hash") THEN << >> ELSE Line("hash")
    /\ ret.ShortHash = IF QFailed("shortHash") THEN << >> ELSE Line("shortHash")
    /\ IF QFailed("branch") THEN ret.Branch = << >>
       ELSE Join(ret.Branch, <<LF>>) = raw["branch"].out
    /\ IF QFailed("tags") THEN ret.Tags = << >>
       ELSE Join(ret.Tags, <<LF>>) = raw["tags"].out
    /\ ret.Timestamp = IF QFailed("timestamp") THEN <<"0">> ELSE Line("timestamp")

Fatal ==
    \/ "binary" \in qerr
    \/ "isGitDir" \in qerr
    \/ QFailed("baseDir")
    \/ raw["fs"].err # Nil
    \/ Resolved /\ ~IsDescendant(loc.baseDir, raw["fs"].path)

\* C7: every fatal failure (no binary, not a git directory, no repository
\* root, path-resolution error, directory outside the root) gives a nil
\* record with a non-nil error, and a nil record never comes with a nil error.
C7_FatalGivesNilAndError ==
    Done =>
        /\ Fatal => (ret = NilMeta /\ err # Nil)
        /\ ret = NilMeta => err # Nil

\* the directory is a sibling whose name starts with the root's name
C7_Witness ==
    /\ Done
    /\ Resolved
    /\ loc.baseDir = <<"/", "a">>
    /\ raw["fs"].path = <<"/", "a", "b">>
    /\ ret = NilMeta
    /\ err = "ErrNonRelativePath"

DetectionErrors ==
    {"ErrNotAGitDir", "ErrCouldNotDetectRemote", "ErrCouldNotDetectGitHash",
     "ErrCouldNotDetectGitShortHash", "ErrCouldNotDetectGitBranch"}

\* C8: when the context was cancelled before or during a query, the call
\* ends with a cancellation failure: neither a detection-specific error nor
\* a nil error.
C8_CancellationPropagates ==
    (Done /\ aborted # {}) => (err # Nil /\ err \notin DetectionErrors)

RelComps(root, p) == SubSeq(Comps(p), Len(Comps(root)) + 1, Len(Comps(p)))

\* C9: the root itself gives ".", a directory n levels below the root gives
\* its n last components joined by the separator, and any other directory
\* is not relative and makes Metadata fail.
C9_RelDirByComponents ==
    (Done /\ Resolved) =>
        IF IsDescendant(loc.baseDir, raw["fs"].path)
        THEN /\ ret # NilMeta
             /\ ret.RelDir =
                   IF Comps(raw["fs"].path) = Comps(loc.baseDir) THEN <<".">>
                   ELSE Join(RelComps(loc.baseDir, raw["fs"].path), <<Separator>>)
        ELSE ret = NilMeta /\ err # Nil

\* where C9 does hold: the repository root is not "/"
C9_BelowNamedRoot ==
    (Done /\ Resolved /\ loc.baseDir # <<"/">>) =>
        IF IsDescendant(loc.baseDir, raw["fs"].path)
        THEN /\ ret # NilMeta
             /\ ret.RelDir =
                   IF Comps(raw["fs"].path) = Comps(loc.baseDir) THEN <<".">>
                   ELSE Join(RelComps(loc.baseDir, raw["fs"].path), <<Separator>>)
        ELSE ret = NilMeta /\ err # Nil

\* the failure of the last failing query, in the order of the calls
LastFailure ==
    IF QFailed("branch") THEN "ErrCouldNotDetectGitBranch"
    ELSE IF QFailed("shortHash") THEN "ErrCouldNotDetectGitShortHash"
    ELSE IF QFailed("hash") THEN "ErrCouldNotDetectGitHash"
    ELSE IF QFailed("remote") THEN "ErrCouldNotDetectRemote"
    ELSE Nil

\* C10: the error returned with a record is that of the last failing query
\* among remote URL, hash, short hash and branch, nil exactly when none of
\* them failed; a failed tags query leaves the tags empty and the error as
\* it is.
C10_LastErrorWins ==
    (Done /\ ret # NilMeta) =>
        /\ err = LastFailure
        /\ err = Nil <=> (\A q \in {"remote", "hash", "shortHash", "branch"} : ~QFailed(q))
        /\ QFailed("tags") => ret.Tags = << >>

\* remote and hash failed, the later queries did not, the tags query failed
C10_Witness ==
    /\ Done /\ ret # NilMeta
    /\ QFailed("remote") /\ QFailed("hash")
    /\ ~QFailed("shortHash") /\ ~QFailed("branch") /\ ~QFailed("timestamp")
    /\ QFailed("tags")
    /\ ret.Tags = << >>
    /\ err = "ErrCouldNotDetectGitHash"

=============================================================================
